---- MODULE Spec2Model ----
(***************************************************************************)
(* Read-only archive drivers of PhysicsFS: the BUILD groupfile driver      *)
(* (archivers/grp.c) and the Descent II Movielib driver (archivers/mvl.c). *)
(*                                                                         *)
(* Bytes are numbers 0..255, C strings are sequences of non-zero bytes,    *)
(* and a PHYSFS_uint32 / PHYSFS_uint64 / PHYSFS_sint64 value is a pair of  *)
(* 16-bit digits  [hi, lo]  (value = hi * 2^16 + lo), because the values   *)
(* the drivers compute reach and wrap at 2^32.                             *)
(***************************************************************************)
EXTENDS Integers, Sequences, FiniteSets, TLC

VARIABLES
    disk,    \* the archive file: its format and its bytes (header + directory table)
    fds,     \* the platform's table of open raw handles: position of each, NULL if free
    heap,    \* the live malloc() blocks
    dir,     \* the DirHandle returned by openArchive (GRPinfo / MVLinfo), or NULL
    files,   \* the FileHandles returned by openRead (GRPfileinfo / MVLfileinfo), or NULL
    last     \* the most recent driver call: arguments, result, platform calls made

vars == <<disk, fds, heap, dir, files, last>>

NULL == [null |-> TRUE]

\* for values that are records when they are not NULL
IsNull(x) == DOMAIN x = {"null"}

----------------------------------------------------------------------------
(* Bounds of the model.                                                    *)

MaxEntries == 2      \* most records in a directory table
MaxHandles == 2      \* FileHandle slots a caller keeps at once
MaxFds     == 3      \* raw platform handles opened during one behaviour
MaxObjSize == 3      \* largest objSize passed to read
MaxCount   == 3      \* largest small objCount passed to read

----------------------------------------------------------------------------
(* Fixed-width integers as two 16-bit digits.                              *)

Base == 2 ^ 16

B(h, l) == [hi |-> h, lo |-> l]

Small(n) == B(n \div Base, n % Base)

Zero == B(0, 0)

U32Max == B(Base - 1, Base - 1)

AddB(a, b) ==
    LET l == a.lo + b.lo
    IN  B(a.hi + b.hi + (l \div Base), l % Base)

\* a - b for a >= b
SubB(a, b) ==
    LET l == a.lo - b.lo
    IN  IF l >= 0 THEN B(a.hi - b.hi, l) ELSE B(a.hi - b.hi - 1, l + Base)

LtB(a, b) == a.hi < b.hi \/ (a.hi = b.hi /\ a.lo < b.lo)

LeB(a, b) == a = b \/ LtB(a, b)

MinB(a, b) == IF LtB(a, b) THEN a ELSE b

\* the (PHYSFS_uint32) cast
Trunc32(a) == B(a.hi % Base, a.lo)

Add32(a, b) == Trunc32(AddB(a, b))

\* a - b in PHYSFS_uint32 arithmetic
Sub32(a, b) == Trunc32(SubB(B(a.hi + Base, a.lo), b))

\* a / d and a * d for a small positive d
DivB(a, d) ==
    LET r == a.hi % d
    IN  B(a.hi \div d, ((r * Base) + a.lo) \div d)

MulB(a, d) ==
    LET l == a.lo * d
    IN  B((a.hi * d) + (l \div Base), l % Base)

----------------------------------------------------------------------------
(* C strings.                                                              *)

RECURSIVE FirstIndex(_, _, _)
\* index of the first element of s at or after i that is in set cs, or 0
FirstIndex(s, cs, i) ==
    IF i > Len(s) THEN 0
    ELSE IF s[i] \in cs THEN i
    ELSE FirstIndex(s, cs, i + 1)

\* the C string stored in a char array: the bytes before the first NUL
CStr(buf) ==
    LET z == FirstIndex(buf, {0}, 1)
    IN  IF z = 0 THEN buf ELSE SubSeq(buf, 1, z - 1)

\* byte at index i of a C string, the terminator included
At(s, i) == IF i <= Len(s) THEN s[i] ELSE 0

RECURSIVE strcmp_from(_, _, _)
strcmp_from(s, t, i) ==
    IF At(s, i) # At(t, i) THEN At(s, i) - At(t, i)
    ELSE IF At(s, i) = 0 THEN 0
    ELSE strcmp_from(s, t, i + 1)

strcmp(s, t) == strcmp_from(s, t, 1)

tolower(c) == IF c \in 65..90 THEN c + 32 ELSE c

RECURSIVE stricmp_from(_, _, _)
stricmp_from(s, t, i) ==
    IF tolower(At(s, i)) # tolower(At(t, i))
    THEN tolower(At(s, i)) - tolower(At(t, i))
    ELSE IF At(s, i) = 0 THEN 0
    ELSE stricmp_from(s, t, i + 1)

__PHYSFS_platformStricmp(s, t) == stricmp_from(s, t, 1)

\* strchr(s, c) for c # 0: index of the first c in the C string, or 0
strchr(s, c) == FirstIndex(s, {c}, 1)

\* strlen(strchr(s, c)) when strchr(s, c) # NULL
strlen_from(s, i) == Len(s) - i + 1

----------------------------------------------------------------------------
(* The two on-disk formats.                                                *)

Formats == {"GRP", "MVL"}

\* "KenSilverman" and "DMVL"
Signature(fmt) ==
    IF fmt = "GRP"
    THEN <<75, 101, 110, 83, 105, 108, 118, 101, 114, 109, 97, 110>>
    ELSE <<68, 77, 86, 76>>

\* bytes of the name field of one directory record
NameWidth(fmt) == IF fmt = "GRP" THEN 12 ELSE 13

\* bytes of one directory record: name field + 4-byte size
RecordSize(fmt) == IF fmt = "GRP" THEN 16 ELSE 17

\* signature + 4-byte count: the initial value of `location`
HeaderSize(fmt) == IF fmt = "GRP" THEN 16 ELSE 8

\* PHYSFS_swapULE32 applied to four bytes read from the file: the value of
\* a little-endian 32-bit field, whatever the host byte order
PHYSFS_swapULE32(b) == B((b[4] * 256) + b[3], (b[2] * 256) + b[1])

\* a count that fits a TLC integer
ToInt(b) == (b.hi * Base) + b.lo

----------------------------------------------------------------------------
(* The platform layer as seen by the drivers.  env is what the platform    *)
(* and the allocator decide during one driver call.  Fd is a raw handle as *)
(* a call leaves it: still open or not, its position, and how many times   *)
(* __PHYSFS_platformClose was called on it.                                 *)

Fd(isOpen, pos, nclose) == [open |-> isOpen, pos |-> pos, closes |-> nclose]

\* __PHYSFS_platformRead(fh, buf, n, 1) on the archive file at byte offset
\* pos: one whole object, or a short read
PlatformReadOne(bytes, pos, n, ioOK) == ioOK /\ pos + n <= Len(bytes)

PlatformBytes(bytes, pos, n) == SubSeq(bytes, pos + 1, pos + n)

\* __PHYSFS_platformClose on a raw handle; closeOK is the platform's answer
PlatformClose(fd, closeOK) ==
    Fd(IF closeOK THEN FALSE ELSE fd.open, fd.pos, fd.closes + 1)

\* the same where the driver ignores the answer (opening and loading): the
\* platform is taken to release a handle whose close the driver cannot retry
PlatformCloseIgnored(fd) == PlatformClose(fd, TRUE)

----------------------------------------------------------------------------
(* grp_open / mvl_open.                                                    *)
(* The result tells what the caller sees (rc, *fh, *count, the error set)  *)
(* and what happened to the raw handle the call opened (fd, NULL if it     *)
(* opened none) and which platform calls it made.                          *)

\* memcmp(buf, "KenSilverman", 12) != 0 / memcmp(buf, "DMVL", 4) != 0
signature_differs_first_byte(fmt, buf) == buf[1] # Signature(fmt)[1]

signature_differs(fmt, buf) == buf # Signature(fmt)

OpenResult(rc, fh, count, err, fd, calls) ==
    [rc |-> rc, fh |-> fh, count |-> count, err |-> err, fd |-> fd, calls |-> calls]

arc_open(fmt, bytes, forWriting, env) ==
    LET n   == Len(Signature(fmt))
        fd0 == Fd(TRUE, Zero, 0)
        failed(err, calls) ==
            \* openGrp_failed: *fh is not NULL here
            OpenResult(0, FALSE, U32Max, err,
                       PlatformCloseIgnored(fd0), calls \o <<"close">>)
    IN  IF forWriting
        THEN OpenResult(0, FALSE, NULL, "ERR_ARC_IS_READ_ONLY", NULL, <<>>)
        ELSE IF ~env.openOK
        THEN OpenResult(0, FALSE, NULL, "platform", NULL, <<"open">>)
        ELSE IF ~PlatformReadOne(bytes, 0, n, env.io >= 1)
        THEN failed("platform", <<"open", "read">>)
        ELSE IF signature_differs(fmt, PlatformBytes(bytes, 0, n))
        THEN failed("ERR_UNSUPPORTED_ARCHIVE", <<"open", "read">>)
        ELSE IF ~PlatformReadOne(bytes, n, 4, env.io >= 2)
        THEN failed("platform", <<"open", "read", "read">>)
        ELSE OpenResult(1, TRUE, PHYSFS_swapULE32(PlatformBytes(bytes, n, 4)),
                        "none", Fd(TRUE, Small(n + 4), 0),
                        <<"open", "read", "read">>)

----------------------------------------------------------------------------
(* GRP_isArchive / MVL_isArchive.                                          *)

do_isArchive_closes_again(fmt, bytes, forWriting, env) ==
    LET o == arc_open(fmt, bytes, forWriting, env)
    IN  IF ~IsNull(o.fd)
        THEN [rc |-> o.rc, err |-> o.err,
              fd |-> PlatformCloseIgnored(o.fd),
              calls |-> o.calls \o <<"close">>]
        ELSE [rc |-> o.rc, err |-> o.err, fd |-> o.fd, calls |-> o.calls]

do_isArchive(fmt, bytes, forWriting, env) ==
    LET o == arc_open(fmt, bytes, forWriting, env)
    IN  IF o.fh
        THEN [rc |-> o.rc, err |-> o.err,
              fd |-> PlatformCloseIgnored(o.fd),
              calls |-> o.calls \o <<"close">>]
        ELSE [rc |-> o.rc, err |-> o.err, fd |-> o.fd, calls |-> o.calls]

----------------------------------------------------------------------------
(* Directory entries (GRPentry / MVLentry).                                *)

Entry(name, startPos, size) == [name |-> name, startPos |-> startPos, size |-> size]

\* the C string left in entry->name after a GRP record's name field is read:
\* name[12] = '\0', then the first space (if any) becomes the terminator
grp_entry_name(field) ==
    LET s   == CStr(field \o <<0>>)
        ptr == strchr(s, 32)
    IN  IF ptr # 0 THEN SubSeq(s, 1, ptr - 1) ELSE s

\* the C string in entry->name after an MVL record's 13-byte name field is
\* read into name[13]: nothing is stored after the field, so a field without
\* a NUL runs on into the bytes that follow the array (pad: what a reader
\* of the string finds there before the first zero byte)
mvl_entry_name(field, pad) ==
    IF FirstIndex(field, {0}, 1) # 0 THEN CStr(field) ELSE field \o pad

entry_name(fmt, field, pad) ==
    IF fmt = "GRP" THEN grp_entry_name(field) ELSE mvl_entry_name(field, pad)

grp_entry_cmp(a, one, two) == strcmp(a[one].name, a[two].name)

mvl_entry_cmp(a, one, two) ==
    IF one # two THEN strcmp(a[one].name, a[two].name) ELSE 0

entry_cmp(fmt, a, one, two) ==
    IF fmt = "GRP" THEN grp_entry_cmp(a, one, two) ELSE mvl_entry_cmp(a, one, two)

grp_entry_swap(a, one, two) ==
    [a EXCEPT ![one] = a[two], ![two] = a[one]]

mvl_entry_swap(a, one, two) ==
    IF one # two THEN [a EXCEPT ![one] = a[two], ![two] = a[one]] ELSE a

\* the swap function handed to __PHYSFS_sort exchanges whole records
entry_swap_names(fmt, a, one, two) ==
    [a EXCEPT ![one].name = a[two].name, ![two].name = a[one].name]

entry_swap(fmt, a, one, two) ==
    IF fmt = "GRP" THEN grp_entry_swap(a, one, two) ELSE mvl_entry_swap(a, one, two)

\* __PHYSFS_sort(entries, max, cmpfn, swapfn): an in-place sort that only
\* looks at the array through cmpfn and only changes it through swapfn
\* (bubble sort: passes over adjacent pairs until a pass swaps nothing)
RECURSIVE sort_pass(_, _, _, _)
sort_pass(fmt, a, i, hi) ==
    IF i >= hi THEN a
    ELSE IF entry_cmp(fmt, a, i, i + 1) > 0
         THEN sort_pass(fmt, entry_swap(fmt, a, i, i + 1), i + 1, hi)
         ELSE sort_pass(fmt, a, i + 1, hi)

RECURSIVE sort_loop(_, _, _)
sort_loop(fmt, a, hi) ==
    LET b == sort_pass(fmt, a, 1, hi)
    IN  IF b = a THEN a ELSE sort_loop(fmt, b, hi)

__PHYSFS_sort(fmt, a, max) == IF max > 0 THEN sort_loop(fmt, a, max) ELSE a

----------------------------------------------------------------------------
(* grp_load_entries / mvl_load_entries.                                    *)

\* location += entry->size, in PHYSFS_uint32
next_location_nowrap(location, size) == AddB(location, size)

next_location(location, size) == Add32(location, size)

\* the for loop: reads fileCount records starting at byte offset pos; nread
\* platform reads were made before.  Returns the entries built and whether
\* every read delivered its object.
RECURSIVE load_loop(_, _, _, _, _, _, _)
load_loop(fmt, bytes, env, pos, location, fileCount, acc) ==
    LET w     == NameWidth(fmt)
        nread == 2 + (2 * Len(acc))
    IN  IF fileCount = 0
        THEN [ok |-> TRUE, entries |-> acc, reads |-> nread]
        ELSE IF ~PlatformReadOne(bytes, pos, w, env.io >= nread + 1)
        THEN [ok |-> FALSE, entries |-> acc, reads |-> nread + 1]
        ELSE IF ~PlatformReadOne(bytes, pos + w, 4, env.io >= nread + 2)
        THEN [ok |-> FALSE, entries |-> acc, reads |-> nread + 2]
        ELSE LET size == PHYSFS_swapULE32(PlatformBytes(bytes, pos + w, 4))
                 e    == Entry(entry_name(fmt, PlatformBytes(bytes, pos, w), env.pad),
                               location, size)
             IN  load_loop(fmt, bytes, env, pos + w + 4, next_location(location, size),
                           fileCount - 1, Append(acc, e))

Calls(k, c) == [i \in 1..k |-> c]

\* allocated tells whether info->entries is non-NULL on return
arc_load_entries(fmt, bytes, forWriting, env) ==
    LET o == arc_open(fmt, bytes, forWriting, env)
    IN  IF o.rc = 0
        THEN [rc |-> 0, err |-> o.err, fd |-> o.fd, calls |-> o.calls,
              entryCount |-> Zero, entries |-> <<>>, allocated |-> FALSE]
        ELSE IF ~env.mEntries
        THEN [rc |-> 0, err |-> "ERR_OUT_OF_MEMORY",
              fd |-> PlatformCloseIgnored(o.fd),
              calls |-> o.calls \o <<"close">>,
              entryCount |-> o.count, entries |-> <<>>, allocated |-> FALSE]
        ELSE LET location == Add32(Small(HeaderSize(fmt)),
                                   Trunc32(MulB(o.count, RecordSize(fmt))))
                 l == load_loop(fmt, bytes, env, ToInt(o.fd.pos), location,
                                ToInt(o.count), <<>>)
                 calls == <<"open">> \o Calls(l.reads, "read") \o <<"close">>
                 fd == PlatformCloseIgnored(
                          Fd(TRUE, AddB(o.fd.pos,
                                        Small(Len(l.entries) * RecordSize(fmt))), 0))
             IN  IF ~l.ok
                 THEN [rc |-> 0, err |-> "platform", fd |-> fd, calls |-> calls,
                       entryCount |-> o.count, entries |-> l.entries,
                       allocated |-> TRUE]
                 ELSE [rc |-> 1, err |-> "none", fd |-> fd, calls |-> calls,
                       entryCount |-> o.count,
                       entries |-> __PHYSFS_sort(fmt, l.entries, ToInt(o.count)),
                       allocated |-> TRUE]

----------------------------------------------------------------------------
(* GRP_openArchive / MVL_openArchive.                                      *)
(* heap: the blocks malloc()ed by the call and not free()d when it returns *)

Info(filename, modtime, entryCount, entries) ==
    [filename |-> filename, last_mod_time |-> modtime,
     entryCount |-> entryCount, entries |-> entries]

\* the GRP_openArchive_failed / MVL_openArchive_failed label: what is left of
\* the blocks in alloc (info->filename and info->entries are NULL unless
\* allocated, info was zeroed by memset)
openArchive_failed_keeps_entries(alloc) ==
    alloc \ {"DirHandle", "info", "filename"}

openArchive_failed(alloc) ==
    LET freed ==
            IF "DirHandle" \in alloc
            THEN (IF "info" \in alloc
                  THEN (alloc \cap {"filename"}) \cup (alloc \cap {"entries"})
                       \cup {"info"}
                  ELSE {}) \cup {"DirHandle"}
            ELSE {}
    IN  alloc \ freed

do_openArchive(fmt, d, forWriting, env) ==
    LET modcall == <<"getLastModTime">>
        l       == arc_load_entries(fmt, d.bytes, forWriting, env)
        fail(err, fd, calls, alloc) ==
            [retval |-> NULL, err |-> err, fd |-> fd, calls |-> calls,
             heap |-> openArchive_failed(alloc)]
    IN  IF ~env.mDir
        THEN [retval |-> NULL, err |-> "ERR_OUT_OF_MEMORY", fd |-> NULL,
              calls |-> modcall, heap |-> {}]
        ELSE IF ~env.mInfo
        THEN fail("ERR_OUT_OF_MEMORY", NULL, modcall, {"DirHandle"})
        ELSE IF ~env.mName
        THEN fail("ERR_OUT_OF_MEMORY", NULL, modcall, {"DirHandle", "info"})
        ELSE IF l.rc = 0
        THEN fail(l.err, l.fd, modcall \o l.calls,
                  {"DirHandle", "info", "filename"}
                      \cup (IF l.allocated THEN {"entries"} ELSE {}))
        ELSE [retval |-> Info(d.path, d.mtime, l.entryCount, l.entries),
              err |-> "none", fd |-> l.fd, calls |-> modcall \o l.calls,
              heap |-> {"DirHandle", "info", "filename", "entries"}]

----------------------------------------------------------------------------
(* grp_find_entry / mvl_find_entry.                                        *)
(* Returns the index of the entry found (0 for NULL), the error set and    *)
(* the number of name comparisons made.                                    *)

\* (PHYSFS_sint32) of a PHYSFS_uint32
ToSint32(b) == IF b.hi >= Base \div 2 THEN 0 - ToInt(Sub32(Zero, b)) ELSE ToInt(b)

find_cmp_bytes(fmt, name, ename) == strcmp(name, ename)

find_cmp(fmt, name, ename) ==
    IF fmt = "GRP" THEN strcmp(name, ename) ELSE __PHYSFS_platformStricmp(name, ename)

\* the while loop; lo, hi, middle are the C (0-based) indexes
RECURSIVE find_loop(_, _, _, _, _, _)
find_loop(fmt, a, name, lo, hi, cmps) ==
    IF lo > hi
    THEN [entry |-> 0, err |-> "ERR_NO_SUCH_FILE", cmps |-> cmps]
    ELSE LET middle == lo + ((hi - lo) \div 2)
             rc     == find_cmp(fmt, name, a[middle + 1].name)
         IN  IF rc = 0 THEN [entry |-> middle + 1, err |-> "none", cmps |-> cmps + 1]
             ELSE IF rc > 0 THEN find_loop(fmt, a, name, middle + 1, hi, cmps + 1)
             ELSE find_loop(fmt, a, name, lo, middle - 1, cmps + 1)

arc_find_entry_searches(fmt, info, name) ==
    find_loop(fmt, info.entries, name, 0,
              ToSint32(Sub32(info.entryCount, Small(1))), 0)

arc_find_entry(fmt, info, name) ==
    LET ptr     == strchr(name, 46)
        nothing == [entry |-> 0, err |-> "ERR_NO_SUCH_FILE", cmps |-> 0]
    IN  IF ptr # 0 /\ strlen_from(name, ptr) > 4 THEN nothing
        ELSE IF Len(name) > 12 THEN nothing
        ELSE IF strchr(name, 47) # 0 THEN nothing
        ELSE find_loop(fmt, info.entries, name, 0,
                       ToSint32(Sub32(info.entryCount, Small(1))), 0)

----------------------------------------------------------------------------
(* Queries on a container.                                                 *)

\* GRP_exists / MVL_exists
do_exists(fmt, info, name) == arc_find_entry(fmt, info, name).entry # 0

\* GRP_isDirectory / MVL_isDirectory, GRP_isSymLink / MVL_isSymLink
do_isDirectory(fmt, info, name) ==
    [retval |-> 0, fileExists |-> do_exists(fmt, info, name)]

do_isSymLink(fmt, info, name) ==
    [retval |-> 0, fileExists |-> do_exists(fmt, info, name)]

\* GRP_getLastModTime / MVL_getLastModTime
do_getLastModTime_always(fmt, info, name) ==
    LET f == arc_find_entry(fmt, info, name)
    IN  [retval |-> info.last_mod_time, fileExists |-> f.entry # 0,
         entry |-> f.entry, err |-> f.err, cmps |-> f.cmps]

do_getLastModTime(fmt, info, name) ==
    LET f == arc_find_entry(fmt, info, name)
    IN  [retval |-> IF f.entry # 0 THEN info.last_mod_time ELSE -1,
         fileExists |-> f.entry # 0,
         entry |-> f.entry, err |-> f.err, cmps |-> f.cmps]

\* __PHYSFS_addToLinkedStringList(retval, &p, str, -1): str is appended
__PHYSFS_addToLinkedStringList(list, str) == Append(list, str)

\* for (i = 0; i < max; i++, entry++)
RECURSIVE enumerate_loop(_, _, _, _)
enumerate_loop(entries, i, max, retval) ==
    IF i >= max THEN retval
    ELSE enumerate_loop(entries, i + 1, max,
                        __PHYSFS_addToLinkedStringList(retval, entries[i + 1].name))

\* GRP_enumerateFiles / MVL_enumerateFiles; omitSymLinks is not looked at.
\* ok tells whether the call got past the test of dirname.
do_enumerateFiles_any_dir(info, dirname) ==
    [ok |-> TRUE, err |-> "none",
     list |-> enumerate_loop(info.entries, 0, ToInt(info.entryCount), <<>>)]

do_enumerateFiles(info, dirname) ==
    IF dirname # <<>>
    THEN [ok |-> FALSE, err |-> "ERR_NOT_A_DIR", list |-> <<>>]
    ELSE [ok |-> TRUE, err |-> "none",
          list |-> enumerate_loop(info.entries, 0, ToInt(info.entryCount), <<>>)]

\* GRP_openWrite, GRP_openAppend, GRP_remove, GRP_mkdir and their MVL twins:
\* BAIL_MACRO(ERR_NOT_SUPPORTED, NULL or 0)
do_unsupported(name) == [rc |-> 0, err |-> "ERR_NOT_SUPPORTED"]

----------------------------------------------------------------------------
(* Archive files the model is run on.                                      *)

Pad(s, w, c) == s \o [i \in 1..(w - Len(s)) |-> c]

\* GRP pads the name field with spaces, MVL with NULs
PadByte(fmt) == IF fmt = "GRP" THEN 32 ELSE 0

Rec(name, size) == [name |-> name, size |-> size]

RecBytes(fmt, r) == Pad(r.name, NameWidth(fmt), PadByte(fmt)) \o r.size

RECURSIVE TableBytes(_, _, _)
TableBytes(fmt, recs, i) ==
    IF i > Len(recs) THEN <<>>
    ELSE RecBytes(fmt, recs[i]) \o TableBytes(fmt, recs, i + 1)

CountBytes(n) == <<n % 256, n \div 256, 0, 0>>

FileBytes(fmt, sig, count, recs) == sig \o CountBytes(count) \o TableBytes(fmt, recs, 1)

\* directory records the tables are made of:
\*   "a" of 0 bytes, "B" of 2^31 bytes, "A.BCDE" of 1 byte, "A/B" of 2^32 - 1
\*   bytes, "B C" of 3 bytes, and a name that fills the field, 5 bytes
RecPool(fmt) ==
    << Rec(<<97>>, <<0, 0, 0, 0>>),
       Rec(<<66>>, <<0, 0, 0, 128>>),
       Rec(<<65, 46, 66, 67, 68, 69>>, <<1, 0, 0, 0>>),
       Rec(<<65, 47, 66>>, <<255, 255, 255, 255>>),
       Rec(<<66, 32, 67>>, <<3, 0, 0, 0>>),
       Rec([i \in 1..NameWidth(fmt) |-> 64 + i], <<5, 0, 0, 0>>) >>

TablesUpTo(fmt, max) ==
    UNION {[1..n -> {RecPool(fmt)[k] : k \in 1..Len(RecPool(fmt))}] : n \in 0..max}

WellFormed(fmt) ==
    {FileBytes(fmt, Signature(fmt), Len(t), t) : t \in TablesUpTo(fmt, MaxEntries)}

\* the other driver's file, a signature whose last byte is wrong, a cut
\* signature, a cut count, a count larger than the table, a table cut inside
\* its last record
Malformed(fmt) ==
    LET sig   == Signature(fmt)
        other == Signature(CHOOSE f \in Formats : f # fmt)
        near  == [sig EXCEPT ![Len(sig)] = 33]
        short == TablesUpTo(fmt, 1)
    IN  {FileBytes(fmt, other, Len(t), t) : t \in short}
        \cup {FileBytes(fmt, near, 0, <<>>)}
        \cup {SubSeq(sig, 1, Len(sig) - 1), sig, sig \o <<1, 0>>}
        \cup {FileBytes(fmt, sig, Len(t) + 1, t) : t \in short}
        \cup {LET b == FileBytes(fmt, sig, 1, t) IN SubSeq(b, 1, Len(b) - 4) :
                 t \in short \ {<<>>}}

\* fmt is the driver the file is given to
Disk(fmt, bytes) == [fmt |-> fmt, bytes |-> bytes, path |-> "archive", mtime |-> 42]

Disks == UNION {{Disk(fmt, b) : b \in WellFormed(fmt) \cup Malformed(fmt)} : fmt \in Formats}

\* ordinary archives: every name is unique under either comparison rule and
\* is a plain short name ("a", "B", "c"), every size is small
PlainPool == << Rec(<<97>>, <<5, 0, 0, 0>>), Rec(<<66>>, <<3, 0, 0, 0>>),
                Rec(<<99>>, <<0, 0, 0, 0>>) >>

PlainTables ==
    {t \in UNION {[1..n -> {PlainPool[k] : k \in 1..Len(PlainPool)}] : n \in 0..(MaxEntries + 1)} :
        \A i, j \in 1..Len(t) : i # j => t[i] # t[j]}

PlainDisks ==
    {Disk(fmt, FileBytes(fmt, Signature(fmt), Len(t), t)) : fmt \in Formats, t \in PlainTables}

\* names a caller asks for: a, A, B, b, Z, the empty name, A.BCDE, A/B,
\* "B C", a 12-character and a 13-character name
AskNames ==
    { <<97>>, <<65>>, <<66>>, <<98>>, <<90>>, <<>>,
      <<65, 46, 66, 67, 68, 69>>, <<65, 47, 66>>, <<66, 32, 67>>,
      [i \in 1..12 |-> 64 + i], [i \in 1..13 |-> 64 + i] }

\* directories a caller asks to list: the root and "sub"
DirNames == { <<>>, <<115, 117, 98>> }

\* a few of these names: "a", "Z" and "A/B"
FewNames == { <<97>>, <<90>>, <<65, 47, 66>> }

\* what the platform and the allocator may decide during an open: whether
\* the file opens, how many platform reads deliver their object, whether
\* each malloc() succeeds, and the bytes found after an unterminated name.
\* Every path of the code is taken by a run with at most one failure.
EnvOK ==
    [openOK |-> TRUE, io |-> 100, mDir |-> TRUE, mInfo |-> TRUE,
     mName |-> TRUE, mEntries |-> TRUE, pad |-> <<>>]

Envs ==
    {EnvOK, [EnvOK EXCEPT !.openOK = FALSE], [EnvOK EXCEPT !.mDir = FALSE],
     [EnvOK EXCEPT !.mInfo = FALSE], [EnvOK EXCEPT !.mName = FALSE],
     [EnvOK EXCEPT !.mEntries = FALSE], [EnvOK EXCEPT !.pad = <<88>>]}
    \cup {[EnvOK EXCEPT !.io = k] : k \in 0..3}

\* nothing failed during the call
Healthy(env) ==
    /\ env.openOK /\ env.io = EnvOK.io
    /\ env.mDir /\ env.mInfo /\ env.mName /\ env.mEntries

\* the decisions grp_open / mvl_open depends on
OpenEnvs == {EnvOK, [EnvOK EXCEPT !.openOK = FALSE]} \cup {[EnvOK EXCEPT !.io = k] : k \in 0..1}

\* a call for writing asks the platform and the allocator nothing that
\* changes its course after the allocations of openArchive
WriteEnvs ==
    {EnvOK, [EnvOK EXCEPT !.mDir = FALSE], [EnvOK EXCEPT !.mInfo = FALSE],
     [EnvOK EXCEPT !.mName = FALSE]}

----------------------------------------------------------------------------
(* State machine.                                                          *)

FdIds == 1..MaxFds

Handles == 1..MaxHandles

FreeFds == {i \in FdIds : IsNull(fds[i])}

NoCall ==
    [op |-> "none", fw |-> FALSE, name |-> <<>>, h |-> 0, objSize |-> 0,
     objCount |-> Zero, offset |-> Zero, rc |-> 0, val |-> Zero, err |-> "none",
     calls |-> <<>>, fd |-> NULL, entry |-> 0, exists |-> FALSE, cmps |-> 0,
     list |-> <<>>, before |-> NULL, asked |-> Zero, platform |-> "none"]

\* a raw handle that a call leaves open stays in the platform's table
KeepOpen(table, fd) ==
    IF ~IsNull(fd) /\ fd.open
    THEN [table EXCEPT ![CHOOSE i \in FdIds : IsNull(table[i])] = [pos |-> fd.pos]]
    ELSE table

DirBlocks(tags) == {<<t, 0>> : t \in tags}

Init ==
    /\ disk \in Disks
    /\ fds = [i \in FdIds |-> NULL]
    /\ heap = {}
    /\ dir = NULL
    /\ files = [h \in Handles |-> NULL]
    /\ last = NoCall

\* GRP_isArchive / MVL_isArchive; the caller probes a file before it mounts it
isArchive ==
    \E fw \in BOOLEAN : \E env \in (IF fw THEN {EnvOK} ELSE OpenEnvs) :
        LET r == do_isArchive(disk.fmt, disk.bytes, fw, env)
        IN  /\ IsNull(dir)
            /\ FreeFds # {}
            /\ fds' = KeepOpen(fds, r.fd)
            /\ last' = [NoCall EXCEPT !.op = "isArchive", !.fw = fw, !.rc = r.rc,
                                      !.err = r.err, !.calls = r.calls, !.fd = r.fd,
                                      !.platform = IF Healthy(env) THEN "ok" ELSE "fail"]
            /\ UNCHANGED <<disk, heap, dir, files>>

\* GRP_openArchive / MVL_openArchive
openArchive ==
    \E fw \in BOOLEAN : \E env \in (IF fw THEN WriteEnvs ELSE Envs) :
        LET r == do_openArchive(disk.fmt, disk, fw, env)
        IN  /\ IsNull(dir)
            /\ FreeFds # {}
            /\ fds' = KeepOpen(fds, r.fd)
            /\ heap' = heap \cup DirBlocks(r.heap)
            /\ dir' = r.retval
            /\ last' = [NoCall EXCEPT !.op = "openArchive", !.fw = fw,
                                      !.rc = IF IsNull(r.retval) THEN 0 ELSE 1,
                                      !.err = r.err, !.calls = r.calls, !.fd = r.fd,
                                      !.platform = IF Healthy(env) THEN "ok" ELSE "fail"]
            /\ UNCHANGED <<disk, files>>

\* GRP_exists / MVL_exists
exists ==
    \E name \in AskNames :
        LET f == arc_find_entry(disk.fmt, dir, name)
        IN  /\ ~IsNull(dir)
            /\ last' = [NoCall EXCEPT !.op = "exists", !.name = name,
                                      !.rc = IF f.entry # 0 THEN 1 ELSE 0,
                                      !.exists = f.entry # 0,
                                      !.entry = f.entry, !.err = f.err, !.cmps = f.cmps]
            /\ UNCHANGED <<disk, fds, heap, dir, files>>

\* GRP_getLastModTime / MVL_getLastModTime
getLastModTime_stores ==
    \E name \in AskNames :
        LET r == do_getLastModTime(disk.fmt, dir, name)
        IN  /\ ~IsNull(dir)
            /\ dir' = [dir EXCEPT !.last_mod_time = r.retval]
            /\ last' = [NoCall EXCEPT !.op = "getLastModTime", !.name = name,
                                      !.rc = r.retval,
                                      !.exists = r.fileExists,
                                      !.entry = r.entry, !.err = r.err, !.cmps = r.cmps]
            /\ UNCHANGED <<disk, fds, heap, files>>

getLastModTime ==
    \E name \in AskNames :
        LET r == do_getLastModTime(disk.fmt, dir, name)
        IN  /\ ~IsNull(dir)
            /\ last' = [NoCall EXCEPT !.op = "getLastModTime", !.name = name,
                                      !.rc = r.retval,
                                      !.exists = r.fileExists,
                                      !.entry = r.entry, !.err = r.err, !.cmps = r.cmps]
            /\ UNCHANGED <<disk, fds, heap, dir, files>>

\* GRP_isDirectory / MVL_isDirectory
isDirectory ==
    \E name \in FewNames :
        LET r == do_isDirectory(disk.fmt, dir, name)
        IN  /\ ~IsNull(dir)
            /\ last' = [NoCall EXCEPT !.op = "isDirectory", !.name = name,
                                      !.rc = r.retval, !.exists = r.fileExists,
                                      !.entry = arc_find_entry(disk.fmt, dir, name).entry,
                                      !.cmps = arc_find_entry(disk.fmt, dir, name).cmps,
                                      !.err = arc_find_entry(disk.fmt, dir, name).err]
            /\ UNCHANGED <<disk, fds, heap, dir, files>>

\* GRP_isSymLink / MVL_isSymLink
isSymLink ==
    \E name \in FewNames :
        LET r == do_isSymLink(disk.fmt, dir, name)
        IN  /\ ~IsNull(dir)
            /\ last' = [NoCall EXCEPT !.op = "isSymLink", !.name = name,
                                      !.rc = r.retval, !.exists = r.fileExists,
                                      !.entry = arc_find_entry(disk.fmt, dir, name).entry,
                                      !.cmps = arc_find_entry(disk.fmt, dir, name).cmps,
                                      !.err = arc_find_entry(disk.fmt, dir, name).err]
            /\ UNCHANGED <<disk, fds, heap, dir, files>>

\* GRP_enumerateFiles / MVL_enumerateFiles
enumerateFiles ==
    \E dirname \in DirNames :
        LET r == do_enumerateFiles(dir, dirname)
        IN  /\ ~IsNull(dir)
            /\ last' = [NoCall EXCEPT !.op = "enumerateFiles", !.name = dirname,
                                      !.rc = IF r.ok THEN 1 ELSE 0,
                                      !.err = r.err, !.list = r.list]
            /\ UNCHANGED <<disk, fds, heap, dir, files>>

\* the call of one of the operations that change an archive
Unsupported(op) ==
    \E name \in FewNames :
        LET r == do_unsupported(name)
        IN  /\ ~IsNull(dir)
            /\ last' = [NoCall EXCEPT !.op = op, !.name = name, !.rc = r.rc,
                                      !.err = r.err]
            /\ UNCHANGED <<disk, fds, heap, dir, files>>

\* GRP_openWrite / MVL_openWrite
openWrite == Unsupported("openWrite")

\* GRP_openAppend / MVL_openAppend
openAppend == Unsupported("openAppend")

\* GRP_remove / MVL_remove
remove == Unsupported("remove")

\* GRP_mkdir / MVL_mkdir
mkdir == Unsupported("mkdir")

\* GRP_dirClose / MVL_dirClose; the caller closes the files of a container
\* before the container
dirClose ==
    /\ ~IsNull(dir)
    /\ \A h \in Handles : IsNull(files[h])
    /\ heap' = heap \ DirBlocks({"filename", "entries", "info", "DirHandle"})
    /\ dir' = NULL
    /\ last' = [NoCall EXCEPT !.op = "dirClose"]
    /\ UNCHANGED <<disk, fds, files>>

Next ==
    \/ isArchive \/ openArchive \/ exists \/ getLastModTime \/ dirClose
    \/ isDirectory \/ isSymLink \/ enumerateFiles
    \/ openWrite \/ openAppend \/ remove \/ mkdir

Spec == Init /\ [][Next]_vars

\* the same calls on archives whose names are plain and unique
InitPlain ==
    /\ disk \in PlainDisks
    /\ fds = [i \in FdIds |-> NULL]
    /\ heap = {}
    /\ dir = NULL
    /\ files = [h \in Handles |-> NULL]
    /\ last = NoCall

SpecPlain == InitPlain /\ [][Next]_vars

----------------------------------------------------------------------------
(* Files of a container (GRPfileinfo / MVLfileinfo): handle is the raw     *)
(* handle (an index of fds), entry the index of the entry in the           *)
(* container, curPos the read cursor.                                      *)

FileInfo(handle, entry, curPos) == [handle |-> handle, entry |-> entry, curPos |-> curPos]

FileBlocks(h) == {<<"FileHandle", h>>, <<"finfo", h>>}

\* what the platform and the allocator may decide during openRead
ReadEnvOK == [mFile |-> TRUE, mInfo |-> TRUE, openOK |-> TRUE, seekOK |-> TRUE]

ReadEnvs ==
    {ReadEnvOK, [ReadEnvOK EXCEPT !.mFile = FALSE], [ReadEnvOK EXCEPT !.mInfo = FALSE],
     [ReadEnvOK EXCEPT !.openOK = FALSE], [ReadEnvOK EXCEPT !.seekOK = FALSE]}

\* finfo->handle = __PHYSFS_platformOpenRead(info->filename): the raw handle
\* of a file is the one its openRead opened, a free slot of the table
openRead_handle_shared(table) == 1

openRead_handle(table) == CHOOSE i \in FdIds : IsNull(table[i])

\* GRP_openRead / MVL_openRead: what the call returns (finfo, NULL on
\* failure), the raw handle it opened as the call leaves it, and the blocks
\* it leaves allocated
do_openRead(fmt, info, fnm, env) ==
    LET f     == arc_find_entry(fmt, info, fnm)
        entry == info.entries[f.entry]
        res(finfo, err, fd, calls, blocks) ==
            [finfo |-> finfo, exists |-> f.entry # 0, entry |-> f.entry,
             cmps |-> f.cmps, err |-> err, fd |-> fd, calls |-> calls,
             heap |-> blocks]
    IN  IF f.entry = 0 THEN res(NULL, f.err, NULL, <<>>, {})
        ELSE IF ~env.mFile THEN res(NULL, "ERR_OUT_OF_MEMORY", NULL, <<>>, {})
        ELSE IF ~env.mInfo
        THEN \* free(retval)
             res(NULL, "ERR_OUT_OF_MEMORY", NULL, <<>>, {})
        ELSE IF ~env.openOK
        THEN \* free(finfo); free(retval)
             res(NULL, "platform", NULL, <<"open">>, {})
        ELSE IF ~env.seekOK
        THEN \* free(finfo); free(retval); finfo->handle is not closed
             res(NULL, "platform", Fd(TRUE, Zero, 0), <<"open", "seek">>, {})
        ELSE res(FileInfo(0, f.entry, Zero), "none",
                 Fd(TRUE, entry.startPos, 0), <<"open", "seek">>,
                 {"FileHandle", "finfo"})

\* what __PHYSFS_platformRead may answer when asked for objCount objects:
\* all of them, fewer (a short medium), or an error
PlatformReadAnswers(objCount) ==
    {[err |-> FALSE, n |-> objCount], [err |-> FALSE, n |-> Zero], [err |-> TRUE, n |-> Zero]}
    \cup (IF LtB(Zero, objCount)
          THEN {[err |-> FALSE, n |-> SubB(objCount, Small(1))]} ELSE {})

\* bytesLeft / objSize; a division by zero has no defined result: the
\* process is stopped by the trap (stop), or the quotient is any value
ObjsLeft(bytesLeft, objSize) ==
    IF objSize # 0 THEN {[stop |-> FALSE, q |-> DivB(bytesLeft, objSize)]}
    ELSE {[stop |-> TRUE, q |-> Zero], [stop |-> FALSE, q |-> Zero],
          [stop |-> FALSE, q |-> U32Max]}

\* if (objsLeft < objCount) objCount = objsLeft;
read_clamp_none(objsLeft, objCount) == objCount

read_clamp(objsLeft, objCount) == IF LtB(objsLeft, objCount) THEN objsLeft ELSE objCount

\* finfo->curPos += (PHYSFS_uint32) (rc * objSize);
read_advance_assigns(curPos, n, objSize) == Trunc32(MulB(n, objSize))

read_advance(curPos, n, objSize) == Add32(curPos, Trunc32(MulB(n, objSize)))

\* GRP_read / MVL_read after the clamp: answer is the platform's answer to
\* the clamped request.  Returns the new cursor, the bytes the raw handle
\* moved and the value returned (rc is -1 for an error, else val objects).
do_read(finfo, objSize, answer) ==
    [curPos |-> IF ~answer.err /\ answer.n # Zero
                THEN read_advance(finfo.curPos, answer.n, objSize)
                ELSE finfo.curPos,
     moved  |-> MulB(answer.n, objSize),
     rc     |-> IF answer.err THEN -1 ELSE 0,
     val    |-> answer.n]

\* BAIL_IF_MACRO(offset >= entry->size, ERR_PAST_EOF, 0)
seek_past_eof_lenient(offset, size) == LtB(size, offset)

seek_past_eof(offset, size) == ~LtB(offset, size)

\* entry->startPos + offset, a PHYSFS_uint64
seek_target_32(startPos, offset) == Add32(startPos, offset)

seek_target(startPos, offset) == AddB(startPos, offset)

\* GRP_seek / MVL_seek: offset is a PHYSFS_uint64, never negative; moved
\* tells whether the raw handle was repositioned, to pos
do_seek(finfo, entry, offset, seekOK) ==
    IF seek_past_eof(offset, entry.size)
    THEN [rc |-> 0, err |-> "ERR_PAST_EOF", calls |-> <<>>,
          curPos |-> finfo.curPos, moved |-> FALSE, pos |-> Zero]
    ELSE IF seekOK
    THEN [rc |-> 1, err |-> "none", calls |-> <<"seek">>,
          curPos |-> Trunc32(offset), moved |-> TRUE,
          pos |-> seek_target(entry.startPos, offset)]
    ELSE [rc |-> 0, err |-> "platform", calls |-> <<"seek">>,
          curPos |-> finfo.curPos, moved |-> FALSE, pos |-> Zero]

\* GRP_write / MVL_write: BAIL_MACRO(ERR_NOT_SUPPORTED, -1)
do_write_advances(finfo) ==
    [rc |-> -1, err |-> "ERR_NOT_SUPPORTED", curPos |-> Add32(finfo.curPos, Small(1))]

do_write(finfo) == [rc |-> -1, err |-> "ERR_NOT_SUPPORTED", curPos |-> finfo.curPos]

\* GRP_fileClose / MVL_fileClose: closeOK is the answer of
\* __PHYSFS_platformClose(finfo->handle); freed tells whether finfo and the
\* FileHandle were free()d
do_fileClose_frees_anyway(closeOK) == [rc |-> IF closeOK THEN 1 ELSE 0, freed |-> TRUE]

do_fileClose(closeOK) == [rc |-> IF closeOK THEN 1 ELSE 0, freed |-> closeOK]

\* GRP_eof / MVL_eof
do_eof_beyond(finfo, entry) == IF LtB(entry.size, finfo.curPos) THEN 1 ELSE 0

do_eof(finfo, entry) == IF ~LtB(finfo.curPos, entry.size) THEN 1 ELSE 0

----------------------------------------------------------------------------
(* Calls on the files of a container.  U tells how the caller uses them:   *)
(* the FileHandle slots (H), the names it opens, the object sizes and      *)
(* counts it reads with, and what the platform may decide in openRead.     *)

Loaded == ~IsNull(dir)

\* a division by zero stopped the process
Stopped == last.err = "SIGFPE"

ObjSizes == 0..MaxObjSize

ObjCounts == {Small(n) : n \in 0..MaxCount} \cup {U32Max}

\* offsets a caller seeks to in an entry of the given size: around the
\* start, around the end, and beyond 32 bits
Offsets(size) ==
    {Zero, Small(1), size, B(Base, 0)}
    \cup (IF LtB(Zero, size) THEN {SubB(size, Small(1))} ELSE {})

\* reads are issued while the cursor is within MaxCount bytes of the start
\* or of the end of the entry
InReach(finfo, entry) ==
    \/ LeB(finfo.curPos, Small(MaxCount))
    \/ LeB(Sub32(entry.size, finfo.curPos), Small(MaxCount))

Before(h) == [curPos |-> files[h].curPos, pos |-> fds[files[h].handle].pos]

openRead(U) ==
    \E h \in U.H, fnm \in U.names, env \in U.envs :
        LET r  == do_openRead(disk.fmt, dir, fnm, env)
            id == openRead_handle(fds)
        IN  /\ ~Stopped
            /\ Loaded
            /\ IsNull(files[h])
            /\ FreeFds # {}
            /\ fds' = KeepOpen(fds, r.fd)
            /\ files' = [files EXCEPT ![h] =
                            IF IsNull(r.finfo) THEN NULL
                            ELSE FileInfo(id, r.finfo.entry, r.finfo.curPos)]
            /\ heap' = heap \cup {<<t, h>> : t \in r.heap}
            /\ last' = [NoCall EXCEPT !.op = "openRead", !.h = h, !.name = fnm,
                                      !.rc = IF IsNull(r.finfo) THEN 0 ELSE 1,
                                      !.exists = r.exists, !.entry = r.entry,
                                      !.cmps = r.cmps, !.err = r.err,
                                      !.calls = r.calls, !.fd = r.fd,
                                      !.platform =
                                          IF ~env.openOK \/ ~env.seekOK THEN "fail" ELSE "ok"]
            /\ UNCHANGED <<disk, dir>>

read(U) ==
    \E h \in U.H, objSize \in U.sizes, objCount \in U.counts :
        /\ ~Stopped
        /\ ~IsNull(files[h])
        /\ LET finfo     == files[h]
               entry     == dir.entries[finfo.entry]
               bytesLeft == Sub32(entry.size, finfo.curPos)
           IN  /\ InReach(finfo, entry)
               /\ \E objsLeft \in ObjsLeft(bytesLeft, objSize) :
                    IF objsLeft.stop
                    THEN /\ last' = [NoCall EXCEPT !.op = "read", !.h = h,
                                        !.objSize = objSize, !.objCount = objCount,
                                        !.err = "SIGFPE", !.before = Before(h)]
                         /\ UNCHANGED <<fds, files>>
                    ELSE \E answer \in PlatformReadAnswers(read_clamp(objsLeft.q, objCount)) :
                           LET r == do_read(finfo, objSize, answer)
                           IN  /\ files' = [files EXCEPT ![h].curPos = r.curPos]
                               /\ fds' = [fds EXCEPT ![finfo.handle].pos = AddB(@, r.moved)]
                               /\ last' = [NoCall EXCEPT !.op = "read", !.h = h,
                                              !.objSize = objSize, !.objCount = objCount,
                                              !.rc = r.rc, !.val = r.val,
                                              !.err = IF answer.err THEN "platform" ELSE "none",
                                              !.calls = <<"read">>, !.before = Before(h),
                                              !.asked = read_clamp(objsLeft.q, objCount),
                                              !.platform =
                                                  IF answer.err THEN "fail"
                                                  ELSE IF answer.n = read_clamp(objsLeft.q, objCount)
                                                  THEN "ok" ELSE "short"]
        /\ UNCHANGED <<disk, heap, dir>>

\* GRP_write / MVL_write
write(U) ==
    \E h \in U.H :
        /\ ~Stopped
        /\ ~IsNull(files[h])
        /\ files' = [files EXCEPT ![h].curPos = do_write(files[h]).curPos]
        /\ last' = [NoCall EXCEPT !.op = "write", !.h = h, !.rc = do_write(files[h]).rc,
                                  !.err = do_write(files[h]).err, !.before = Before(h)]
        /\ UNCHANGED <<disk, fds, heap, dir>>

eof(U) ==
    \E h \in U.H :
        /\ ~Stopped
        /\ ~IsNull(files[h])
        /\ last' = [NoCall EXCEPT !.op = "eof", !.h = h,
                                  !.rc = do_eof(files[h], dir.entries[files[h].entry]),
                                  !.before = Before(h)]
        /\ UNCHANGED <<disk, fds, heap, dir, files>>

\* GRP_tell / MVL_tell
tell(U) ==
    \E h \in U.H :
        /\ ~Stopped
        /\ ~IsNull(files[h])
        /\ last' = [NoCall EXCEPT !.op = "tell", !.h = h, !.val = files[h].curPos,
                                  !.before = Before(h)]
        /\ UNCHANGED <<disk, fds, heap, dir, files>>

seek(U) ==
    \E h \in U.H, seekOK \in BOOLEAN :
        /\ ~Stopped
        /\ ~IsNull(files[h])
        /\ \E offset \in Offsets(dir.entries[files[h].entry].size) :
            LET r == do_seek(files[h], dir.entries[files[h].entry], offset, seekOK)
            IN  /\ files' = [files EXCEPT ![h].curPos = r.curPos]
                /\ fds' = IF r.moved THEN [fds EXCEPT ![files[h].handle].pos = r.pos]
                          ELSE fds
                /\ last' = [NoCall EXCEPT !.op = "seek", !.h = h, !.offset = offset,
                                          !.rc = r.rc, !.err = r.err, !.calls = r.calls,
                                          !.before = Before(h),
                                          !.platform = IF seekOK THEN "ok" ELSE "fail"]
        /\ UNCHANGED <<disk, heap, dir>>

\* GRP_fileLength / MVL_fileLength
fileLength(U) ==
    \E h \in U.H :
        /\ ~Stopped
        /\ ~IsNull(files[h])
        /\ last' = [NoCall EXCEPT !.op = "fileLength", !.h = h,
                                  !.val = dir.entries[files[h].entry].size,
                                  !.before = Before(h)]
        /\ UNCHANGED <<disk, fds, heap, dir, files>>

\* GRP_fileClose / MVL_fileClose
fileClose(U) ==
    \E h \in U.H, closeOK \in BOOLEAN :
        /\ ~Stopped
        /\ ~IsNull(files[h])
        /\ fds' = IF closeOK THEN [fds EXCEPT ![files[h].handle] = NULL] ELSE fds
        /\ IF do_fileClose(closeOK).freed
           THEN /\ files' = [files EXCEPT ![h] = NULL]
                /\ heap' = heap \ FileBlocks(h)
           ELSE UNCHANGED <<files, heap>>
        /\ last' = [NoCall EXCEPT !.op = "fileClose", !.h = h,
                                  !.rc = do_fileClose(closeOK).rc,
                                  !.err = IF closeOK THEN "none" ELSE "platform",
                                  !.calls = <<"close">>, !.before = Before(h),
                                  !.platform = IF closeOK THEN "ok" ELSE "fail"]
        /\ UNCHANGED <<disk, dir>>

\* containers whose files are read: "A" of 3 bytes, "B" of 0 bytes and "Z"
\* of 2^32 - 1 bytes, in one archive of each format
FileDisks ==
    {Disk(fmt, FileBytes(fmt, Signature(fmt), 3,
              << Rec(<<65>>, <<3, 0, 0, 0>>), Rec(<<66>>, <<0, 0, 0, 0>>),
                 Rec(<<90>>, <<255, 255, 255, 255>>) >>)) : fmt \in Formats}

\* the state after a successful openArchive of one of these archives
InitFile ==
    /\ disk \in FileDisks
    /\ fds = [i \in FdIds |-> NULL]
    /\ heap = DirBlocks({"DirHandle", "info", "filename", "entries"})
    /\ dir = do_openArchive(disk.fmt, disk, FALSE, EnvOK).retval
    /\ files = [h \in Handles |-> NULL]
    /\ last = [NoCall EXCEPT !.op = "openArchive", !.rc = 1]

\* one file at a time, every kind of call
Single ==
    [H |-> {1}, names |-> AskNames, sizes |-> ObjSizes, counts |-> ObjCounts,
     envs |-> ReadEnvs]

NextFile ==
    \/ openRead(Single) \/ read(Single) \/ write(Single) \/ eof(Single)
    \/ tell(Single) \/ seek(Single) \/ fileLength(Single) \/ fileClose(Single)

SpecFile == InitFile /\ [][NextFile]_vars

\* several files at once, on "A" and "Z", reading bytes
Several ==
    [H |-> Handles, names |-> {<<65>>, <<90>>}, sizes |-> {1},
     counts |-> {Small(1), Small(MaxCount), U32Max}, envs |-> {ReadEnvOK}]

NextFiles ==
    \/ openRead(Several) \/ read(Several) \/ write(Several) \/ eof(Several)
    \/ tell(Several) \/ seek(Several) \/ fileLength(Several) \/ fileClose(Several)

SpecFiles == InitFile /\ [][NextFiles]_vars

\* a caller that opens "A" or "B" and then keeps reading: at least one
\* object a call, objects of one size from the first read on, a medium that
\* delivers what it is asked for
Steady ==
    [H |-> {1}, names |-> {<<65>>, <<66>>}, sizes |-> 1..MaxObjSize,
     counts |-> {Small(n) : n \in 1..MaxCount} \cup {U32Max}, envs |-> ReadEnvs]

readLoop ==
    /\ read(Steady)
    /\ last'.platform = "ok"
    /\ (last.op = "read") => (last'.objSize = last.objSize)

NextLoop == openRead(Steady) \/ readLoop

\* the caller goes on reading as long as a read changes anything
SpecLoop == InitFile /\ [][NextLoop]_vars /\ WF_vars(readLoop)

\* containers whose declared sizes pass 2^32: "Z" of 2^32 - 1 bytes, then
\* "A" of 3 bytes and "B" of 0 bytes, in one archive of each format
WrapDisks ==
    {Disk(fmt, FileBytes(fmt, Signature(fmt), 3,
              << Rec(<<90>>, <<255, 255, 255, 255>>), Rec(<<65>>, <<3, 0, 0, 0>>),
                 Rec(<<66>>, <<0, 0, 0, 0>>) >>)) : fmt \in Formats}

\* the state after a successful openArchive of one of these archives
InitWrap ==
    /\ disk \in WrapDisks
    /\ fds = [i \in FdIds |-> NULL]
    /\ heap = DirBlocks({"DirHandle", "info", "filename", "entries"})
    /\ dir = do_openArchive(disk.fmt, disk, FALSE, EnvOK).retval
    /\ files = [h \in Handles |-> NULL]
    /\ last = [NoCall EXCEPT !.op = "openArchive", !.rc = 1]

SpecWrap == InitWrap /\ [][NextFile]_vars

\* a mounted container: every call on it and on one file of it, read a
\* byte at a time
Brief ==
    [H |-> {1}, names |-> {<<65>>}, sizes |-> {1}, counts |-> {Small(1)},
     envs |-> {ReadEnvOK}]

NextMount ==
    \/ Next
    \/ openRead(Brief) \/ read(Brief) \/ write(Brief) \/ eof(Brief)
    \/ tell(Brief) \/ seek(Brief) \/ fileLength(Brief) \/ fileClose(Brief)

SpecMount == InitFile /\ [][NextMount]_vars

----------------------------------------------------------------------------
(* What the directory table of the archive file says.                      *)

\* number of whole records after the header
DiskCount == ToInt(PHYSFS_swapULE32(PlatformBytes(disk.bytes, Len(Signature(disk.fmt)), 4)))

\* record k (1-based) of the table: its name as a C string under the format's
\* padding rule, and its size
DiskName(k) ==
    LET w     == NameWidth(disk.fmt)
        field == PlatformBytes(disk.bytes, HeaderSize(disk.fmt) + ((k - 1) * RecordSize(disk.fmt)), w)
        z     == FirstIndex(field, IF disk.fmt = "GRP" THEN {0, 32} ELSE {0}, 1)
    IN  IF z = 0 THEN field ELSE SubSeq(field, 1, z - 1)

DiskSize(k) ==
    LET b == PlatformBytes(disk.bytes,
                 HeaderSize(disk.fmt) + ((k - 1) * RecordSize(disk.fmt)) + NameWidth(disk.fmt), 4)
    IN  B((b[4] * 256) + b[3], (b[2] * 256) + b[1])

\* the entries in on-disk order, as the loading loop leaves them before the sort
DiskOrder ==
    load_loop(disk.fmt, disk.bytes, EnvOK, HeaderSize(disk.fmt),
              Add32(Small(HeaderSize(disk.fmt)), Small(DiskCount * RecordSize(disk.fmt))),
              DiskCount, <<>>).entries

\* equality of names under the format's comparison rule
SameName(s, t) ==
    IF disk.fmt = "GRP" THEN strcmp(s, t) = 0 ELSE __PHYSFS_platformStricmp(s, t) = 0

Lookups == {"exists", "getLastModTime", "openRead"}

----------------------------------------------------------------------------
(* C1: lookup is correct and total: a name that some record of the         *)
(* directory table carries (under the format's comparison rule) is found,  *)
(* and the entry found has that name and that record's size; a name that   *)
(* no record carries is reported as ERR_NO_SUCH_FILE.                      *)
C1_LookupCorrectAndTotal ==
    (Loaded /\ last.op \in Lookups) =>
        LET hits == {k \in 1..DiskCount : SameName(DiskName(k), last.name)}
        IN  IF hits # {}
            THEN /\ last.entry # 0
                 /\ SameName(dir.entries[last.entry].name, last.name)
                 /\ \A k \in hits : dir.entries[last.entry].size = DiskSize(k)
            ELSE last.entry = 0 /\ last.err = "ERR_NO_SUCH_FILE"

(* C2: after a successful openArchive the entries are sorted ascending      *)
(* under the comparison rule the same format's lookup uses, for as long as *)
(* the container lives.                                                    *)
C2_SortedUnderLookupOrder ==
    Loaded =>
        \A i, j \in 1..Len(dir.entries) :
            i < j => find_cmp(disk.fmt, dir.entries[i].name, dir.entries[j].name) <= 0

Extent(e) == [startPos |-> e.startPos, size |-> e.size]

Extents(a) == [i \in 1..Len(a) |-> Extent(a[i])]

\* one sequence is the other, reordered
SameEntries(a, b) ==
    /\ Len(a) = Len(b)
    /\ \A e \in {a[i] : i \in 1..Len(a)} \cup {b[i] : i \in 1..Len(b)} :
           Cardinality({i \in 1..Len(a) : a[i] = e}) = Cardinality({i \in 1..Len(b) : b[i] = e})

C8_OpenArchiveLeavesNothing ==
    last.op = "openArchive" =>
        /\ IsNull(last.fd) \/ (last.fd.closes = 1 /\ ~last.fd.open)
        /\ \A i \in FdIds : IsNull(fds[i])
        /\ (last.rc = 0) => (IsNull(dir) /\ heap = {})
        /\ (last.rc = 1) =>
               (Loaded /\ heap = DirBlocks({"DirHandle", "info", "filename", "entries"}))

\* openArchive failed on a short read inside the directory table, after it
\* had read at least one whole record
C8_Witness ==
    /\ last.op = "openArchive" /\ last.rc = 0
    /\ ~IsNull(last.fd) /\ last.fd.closes = 1
    /\ Len(last.calls) >= 8

----------------------------------------------------------------------------
(* Claims about the files of a container.                                  *)

OpenFiles == {h \in Handles : ~IsNull(files[h])}

EntryOf(h) == dir.entries[files[h].entry]

PosOf(h) == fds[files[h].handle].pos

\* the file the last call was made on is still open
OnOpenFile(op) == last.op = op /\ last.h \in OpenFiles

(* C3: the cursor of every open file lies between 0 and the size of its    *)
(* entry, whatever calls were made on it.                                  *)
C3_CursorWithinEntry ==
    \A h \in OpenFiles :
        /\ LeB(Zero, files[h].curPos)
        /\ LeB(files[h].curPos, EntryOf(h).size)

\* a read that asked for more than was left took the cursor of a non-empty
\* entry to its end
C3_Witness ==
    /\ OnOpenFile("read")
    /\ EntryOf(last.h).size # Zero
    /\ files[last.h].curPos = EntryOf(last.h).size
    /\ LtB(last.val, last.objCount)

(* C4: a read of count objects of size 1 that the medium serves in full    *)
(* transfers min(count, size - cursor) bytes, returns that number as a     *)
(* success and advances the cursor by it.                                  *)
C4_ReadClamps ==
    (OnOpenFile("read") /\ last.objSize = 1 /\ last.platform = "ok") =>
        LET size == EntryOf(last.h).size
            left == SubB(size, last.before.curPos)
            n    == MinB(last.objCount, left)
        IN  /\ last.rc = 0
            /\ last.val = n
            /\ last.asked = n
            /\ files[last.h].curPos = AddB(last.before.curPos, n)
            /\ PosOf(last.h) = AddB(last.before.pos, n)
            /\ (last.before.curPos = Zero /\ LeB(size, last.objCount)) => last.val = size

\* a read from cursor 0 asked for more than the entry holds and got the
\* whole entry
C4_Witness ==
    /\ OnOpenFile("read") /\ last.objSize = 1 /\ last.platform = "ok"
    /\ last.before.curPos = Zero
    /\ LtB(EntryOf(last.h).size, last.objCount)
    /\ last.val = EntryOf(last.h).size
    /\ last.val # Zero

(* C5: a seek to an offset at or beyond the size of the entry fails with   *)
(* ERR_PAST_EOF, calls no platform seek and leaves the cursor and the      *)
(* position of the raw handle as they were.                                *)
C5_SeekPastEndRejected ==
    (OnOpenFile("seek") /\ LeB(EntryOf(last.h).size, last.offset)) =>
        /\ last.rc = 0
        /\ last.err = "ERR_PAST_EOF"
        /\ last.calls = <<>>
        /\ files[last.h].curPos = last.before.curPos
        /\ PosOf(last.h) = last.before.pos

\* a seek to exactly the size of a non-empty entry, after the cursor moved
C5_Witness ==
    /\ OnOpenFile("seek")
    /\ last.offset = EntryOf(last.h).size
    /\ last.offset # Zero
    /\ last.before.curPos # Zero
    /\ last.platform = "ok"

(* C6: a seek to an offset below the size of the entry: when the platform  *)
(* seek succeeds it returns success, the raw handle is at startPos +       *)
(* offset and the cursor is the offset; when the platform seek fails it    *)
(* returns failure and the cursor keeps its value.                         *)
C6_SeekInsideEntry ==
    (OnOpenFile("seek") /\ LtB(last.offset, EntryOf(last.h).size)) =>
        IF last.platform = "ok"
        THEN /\ last.rc = 1
             /\ PosOf(last.h) = AddB(EntryOf(last.h).startPos, last.offset)
             /\ files[last.h].curPos = last.offset
        ELSE /\ last.rc = 0
             /\ files[last.h].curPos = last.before.curPos

\* a successful seek near the end of the largest entry, away from the cursor
C6_Witness ==
    /\ OnOpenFile("seek") /\ last.rc = 1
    /\ last.offset.hi > 0
    /\ last.offset # last.before.curPos

(* C9: an openRead that returns no file leaves no raw handle it opened     *)
(* open and no block it allocated on the heap.                             *)
C9_FailedOpenReadReleases ==
    (last.op = "openRead" /\ last.rc = 0) =>
        /\ IsNull(last.fd) \/ ~last.fd.open
        /\ \A i \in FdIds : ~IsNull(fds[i]) => \E h \in OpenFiles : files[h].handle = i
        /\ FileBlocks(last.h) \cap heap = {}

(* C10: a call on one file changes neither the cursor nor the raw handle   *)
(* nor the position of the raw handle of any other open file.              *)
C10_FilesIndependent ==
    [][\A h \in OpenFiles :
          last'.h # h =>
              /\ files'[h] = files[h]
              /\ fds'[files[h].handle] = fds[files[h].handle]]_vars

\* two files open on the same entry, each on its own raw handle, with
\* different cursors
C10_Witness ==
    /\ OpenFiles = Handles
    /\ \E g, h \in Handles :
          /\ g # h
          /\ files[g].entry = files[h].entry
          /\ files[g].handle # files[h].handle
          /\ files[g].curPos # files[h].curPos
          /\ PosOf(g) # PosOf(h)

----------------------------------------------------------------------------
(* Claims about probing and opening.                                       *)

\* the calls of the last operation that are c
CallsOf(c) == {i \in 1..Len(last.calls) : last.calls[i] = c}

\* the first bytes of the archive file, as long as the driver's signature,
\* can be read and are not the signature
WrongSignature ==
    LET n == Len(Signature(disk.fmt))
    IN  Len(disk.bytes) >= n /\ SubSeq(disk.bytes, 1, n) # Signature(disk.fmt)

(* C11: when the signature bytes of the file are readable and differ from  *)
(* the driver's signature, isArchive and openArchive for reading fail with *)
(* ERR_UNSUPPORTED_ARCHIVE, the raw handle has been closed once as the     *)
(* last platform call, and only the signature was read: neither the count  *)
(* nor any directory record.                                               *)
C11_SignatureRejected ==
    (last.op \in {"isArchive", "openArchive"} /\ ~last.fw /\ last.platform = "ok"
        /\ WrongSignature) =>
        /\ last.rc = 0
        /\ last.err = "ERR_UNSUPPORTED_ARCHIVE"
        /\ ~IsNull(last.fd) /\ ~last.fd.open /\ last.fd.closes = 1
        /\ Cardinality(CallsOf("read")) = 1
        /\ CallsOf("close") = {Len(last.calls)}
        /\ \A i \in FdIds : IsNull(fds[i])
        /\ IsNull(dir)

\* openArchive was given a file that differs from the signature in its last
\* signature byte only
C11_Witness ==
    /\ last.op = "openArchive" /\ ~last.fw /\ last.platform = "ok"
    /\ WrongSignature
    /\ disk.bytes[1] = Signature(disk.fmt)[1]

(* C12: isArchive and openArchive called for writing fail, and make no     *)
(* platform call (open, read, seek, close, get-modification-time) on the   *)
(* way; when no allocation fails the error is ERR_ARC_IS_READ_ONLY.        *)
C12_WriteModeBeforeIO ==
    (last.op \in {"isArchive", "openArchive"} /\ last.fw) =>
        /\ last.rc = 0
        /\ last.calls = <<>>
        /\ IsNull(last.fd)
        /\ (last.platform = "ok") => (last.err = "ERR_ARC_IS_READ_ONLY")

----------------------------------------------------------------------------
(* Claims about a mounted container.                                       *)

\* what openArchive builds from the archive file when nothing fails
Built == do_openArchive(disk.fmt, disk, FALSE, EnvOK).retval

(* C13: while a container is loaded, no call other than dirClose changes   *)
(* it: the entry count, the entries (names, sizes, startPos, order), the   *)
(* stored filename and the stored modification time stay what they are.    *)
C13_ContainerImmutable ==
    [][(Loaded /\ last'.op # "dirClose") => dir' = dir]_vars

\* a file of the container was opened, read and closed, and the container
\* is still what openArchive built
C13_Witness ==
    /\ Loaded /\ dir = Built
    /\ last.op = "fileClose" /\ last.rc = 1
    /\ last.before.curPos # Zero

WriteFamily == {"openWrite", "openAppend", "remove", "mkdir", "write"}

(* C14: openWrite, openAppend, remove, mkdir and write on a file fail with *)
(* ERR_NOT_SUPPORTED and change nothing: no raw handle is opened, and the  *)
(* container, the files and their cursors, the raw handles and the bytes   *)
(* of the archive file stay as they were.                                  *)
C14_WriteFamilyRejected ==
    [][(last'.op \in WriteFamily) =>
          /\ last'.rc = (IF last'.op = "write" THEN -1 ELSE 0)
          /\ last'.err = "ERR_NOT_SUPPORTED"
          /\ last'.calls = <<>>
          /\ UNCHANGED <<disk, fds, heap, dir, files>>]_vars

\* a write was tried on a file whose cursor had moved
C14_Witness ==
    /\ OnOpenFile("write")
    /\ last.err = "ERR_NOT_SUPPORTED"
    /\ files[last.h].curPos # Zero

\* the names of a sequence of entries
Names(a) == [i \in 1..Len(a) |-> a[i].name]

\* the entries in on-disk order when the bytes after an unterminated name
\* are pad
DiskOrderPad(pad) ==
    load_loop(disk.fmt, disk.bytes, [EnvOK EXCEPT !.pad = pad], HeaderSize(disk.fmt),
              Add32(Small(HeaderSize(disk.fmt)), Small(DiskCount * RecordSize(disk.fmt))),
              DiskCount, <<>>).entries

Pads == {e.pad : e \in Envs}

(* C15: enumerateFiles of the root returns one name per entry, duplicates  *)
(* included: the names of the directory table, in the order of the sorted  *)
(* entries and not in on-disk order; with any other dirname it fails with  *)
(* ERR_NOT_A_DIR and returns nothing.                                      *)
C15_EnumerateFiles ==
    (Loaded /\ last.op = "enumerateFiles") =>
        IF last.name = <<>>
        THEN /\ last.rc = 1
             /\ Len(last.list) = DiskCount
             /\ Len(last.list) = ToInt(dir.entryCount)
             /\ last.list = Names(dir.entries)
             /\ \E pad \in Pads : SameEntries(last.list, Names(DiskOrderPad(pad)))
             /\ \A i, j \in 1..Len(last.list) :
                    i < j => strcmp(last.list[i], last.list[j]) <= 0
        ELSE /\ last.rc = 0
             /\ last.err = "ERR_NOT_A_DIR"
             /\ last.list = <<>>

\* the root of a container of two entries was listed, and the list is not
\* in on-disk order
C15_Witness ==
    /\ Loaded /\ last.op = "enumerateFiles" /\ last.rc = 1
    /\ Len(last.list) = 2
    /\ \A pad \in Pads : last.list # Names(DiskOrderPad(pad))

(* C16: getLastModTime reports fileExists exactly for the names lookup     *)
(* finds, returns the modification time of the archive file for each of   *)
(* them and -1 for the others; isDirectory and isSymLink return 0 for      *)
(* every name and report fileExists as exists does.                        *)
C16_ModTimeAndKinds ==
    LET found == arc_find_entry(disk.fmt, dir, last.name).entry # 0
    IN  /\ (Loaded /\ last.op = "getLastModTime") =>
               /\ last.exists = found
               /\ last.rc = (IF found THEN disk.mtime ELSE -1)
        /\ (Loaded /\ last.op \in {"isDirectory", "isSymLink"}) =>
               /\ last.rc = 0
               /\ last.exists = found

\* the modification time of the second of two entries was asked
C16_Witness ==
    /\ Loaded /\ last.op = "getLastModTime"
    /\ last.entry = 2 /\ last.exists
    /\ last.rc = disk.mtime

----------------------------------------------------------------------------
(* Claims about the life of a file and its queries.                        *)

(* C17: a file is open from the openRead that returned it until a          *)
(* fileClose whose platform close succeeds.  openRead gives it a raw       *)
(* handle that was not open before; read, seek, tell, eof, fileLength and  *)
(* write keep the file and its raw handle open and the same; a fileClose   *)
(* whose platform close succeeds makes one close call and ends the file    *)
(* and its raw handle; a fileClose whose platform close fails returns 0    *)
(* and leaves the file, its raw handle and its cursor as they were.        *)
C17_HandleLifecycle ==
    [][\A h \in Handles :
          /\ (IsNull(files[h]) /\ ~IsNull(files'[h])) =>
                 /\ last'.op = "openRead" /\ last'.h = h /\ last'.rc = 1
                 /\ IsNull(fds[files'[h].handle])
                 /\ ~IsNull(fds'[files'[h].handle])
          /\ ~IsNull(files[h]) =>
                 IF last'.op = "fileClose" /\ last'.h = h /\ last'.platform = "ok"
                 THEN /\ IsNull(files'[h])
                      /\ IsNull(fds'[files[h].handle])
                      /\ last'.rc = 1
                      /\ last'.calls = <<"close">>
                 ELSE /\ ~IsNull(files'[h])
                      /\ files'[h].handle = files[h].handle
                      /\ ~IsNull(fds'[files[h].handle])
                      /\ (last'.op = "fileClose" /\ last'.h = h) =>
                             /\ last'.rc = 0
                             /\ files'[h] = files[h]
                             /\ fds'[files[h].handle] = fds[files[h].handle]]_vars

\* a close failed on a file whose cursor had moved, and the file is open
C17_Witness ==
    /\ OnOpenFile("fileClose")
    /\ last.rc = 0
    /\ files[last.h].curPos # Zero
    /\ ~IsNull(fds[files[last.h].handle])

Queries == {"tell", "eof", "fileLength"}

(* C18: tell, eof and fileLength change neither a cursor nor a raw handle; *)
(* tell returns the cursor, eof tells whether the cursor is at or past the *)
(* size of the entry, fileLength returns that size; the entry of a file    *)
(* stays the same while the file is open.  Each answer depends on the      *)
(* cursor and the entry alone, so repeating the call with no read or seek  *)
(* in between repeats the answer.                                          *)
C18_PureQueries ==
    [][/\ \A h \in OpenFiles : ~IsNull(files'[h]) => files'[h].entry = files[h].entry
       /\ (last'.op \in Queries) =>
             /\ files' = files /\ fds' = fds /\ dir' = dir
             /\ last'.h \in OpenFiles
             /\ (last'.op = "tell") => last'.val = files[last'.h].curPos
             /\ (last'.op = "eof") =>
                    last'.rc = (IF LeB(EntryOf(last'.h).size, files[last'.h].curPos)
                                THEN 1 ELSE 0)
             /\ (last'.op = "fileLength") => last'.val = EntryOf(last'.h).size]_vars

\* eof was asked at the end of a non-empty entry and answered 1
C18_Witness ==
    /\ OnOpenFile("eof") /\ last.rc = 1
    /\ files[last.h].curPos = EntryOf(last.h).size
    /\ EntryOf(last.h).size # Zero

----------------------------------------------------------------------------
(* Claims about names the lookup refuses and about offsets.                *)

\* a name longer than 12 characters, or with a '/', or with a '.' followed
\* by more than 3 characters
Refused(name) ==
    \/ Len(name) > 12
    \/ \E i \in 1..Len(name) : name[i] = 47
    \/ \E i \in 1..Len(name) : name[i] = 46 /\ Len(name) - i > 3

(* C19: a lookup (exists, getLastModTime, isDirectory, isSymLink) of a     *)
(* name that is longer than 12 characters, has a '/' or has a '.' followed *)
(* by more than 3 characters reports ERR_NO_SUCH_FILE without comparing    *)
(* the name with any entry, whatever the container holds; an entry with    *)
(* such a name is listed by enumerateFiles and not found by the lookup.    *)
C19_RefusedNames ==
    /\ (Loaded /\ last.op \in (Lookups \cup {"isDirectory", "isSymLink"})
            /\ Refused(last.name)) =>
           /\ last.entry = 0
           /\ ~last.exists
           /\ last.err = "ERR_NO_SUCH_FILE"
           /\ last.cmps = 0
    /\ (Loaded /\ last.op = "enumerateFiles" /\ last.rc = 1) =>
           \A i \in 1..Len(dir.entries) :
               Refused(dir.entries[i].name) =>
                   /\ \E k \in 1..Len(last.list) : last.list[k] = dir.entries[i].name
                   /\ ~do_exists(disk.fmt, dir, dir.entries[i].name)

\* a name that an entry of the container carries was asked and refused
C19_Witness ==
    /\ Loaded /\ last.op = "exists"
    /\ Refused(last.name)
    /\ \E i \in 1..Len(dir.entries) : dir.entries[i].name = last.name
    /\ ~last.exists

\* the sum of the sizes of the first k records of the table
RECURSIVE SumSizes(_)
SumSizes(k) == IF k = 0 THEN Zero ELSE AddB(SumSizes(k - 1), DiskSize(k))

\* header + count * record size + the sizes of the records before record k
OffsetOf(k) ==
    AddB(Small(HeaderSize(disk.fmt) + (DiskCount * RecordSize(disk.fmt))), SumSizes(k - 1))

\* the name of record k when the bytes after an unterminated name are pad
NameOf(k, pad) ==
    LET field == PlatformBytes(disk.bytes,
                     HeaderSize(disk.fmt) + ((k - 1) * RecordSize(disk.fmt)),
                     NameWidth(disk.fmt))
    IN  IF disk.fmt = "MVL" /\ FirstIndex(field, {0}, 1) = 0
        THEN field \o pad ELSE DiskName(k)

----------------------------------------------------------------------------
(* Claims about the probe, the names and the case rules.                   *)

(* C21: whatever isArchive is given and however it ends, the raw handle it *)
(* opened (if the platform opened one) has been closed exactly once when   *)
(* it returns, by the last platform call it made, and no raw handle is     *)
(* left open; without an open there is no close.                           *)
C21_ProbeClosesOnce ==
    (last.op = "isArchive") =>
        /\ IsNull(last.fd) <=> (last.fw \/ last.calls = <<"open">>)
        /\ IsNull(last.fd) => CallsOf("close") = {}
        /\ ~IsNull(last.fd) =>
               /\ ~last.fd.open
               /\ last.fd.closes = 1
               /\ CallsOf("open") = {1}
               /\ CallsOf("close") = {Len(last.calls)}
        /\ \A i \in FdIds : IsNull(fds[i])

\* a probe failed after the platform had opened the file
C21_Witness ==
    /\ last.op = "isArchive" /\ last.rc = 0
    /\ ~IsNull(last.fd) /\ last.fd.closes = 1

\* record k's name field as it is on disk
DiskField(k) ==
    PlatformBytes(disk.bytes, HeaderSize(disk.fmt) + ((k - 1) * RecordSize(disk.fmt)),
                  NameWidth(disk.fmt))

\* a field cut before the first byte of stops
CutAt(field, stops) ==
    LET hit == {i \in 1..Len(field) : field[i] \in stops}
    IN  IF hit = {} THEN field
        ELSE SubSeq(field, 1, (CHOOSE i \in hit : \A j \in hit : i <= j) - 1)

(* C22: the names of a loaded GRP container are the 12-byte fields of the  *)
(* table cut at the first space or NUL, so they have at most 12            *)
(* characters and no space; the names of a loaded MVL container are the    *)
(* 13-byte fields cut at the first NUL, and each has at most 12            *)
(* characters, for every table the loader accepts.                         *)
C22_NamesNormalised ==
    (Loaded /\ last.op = "openArchive") =>
        /\ SameEntries(Names(dir.entries),
                       [k \in 1..DiskCount |->
                           CutAt(DiskField(k), IF disk.fmt = "GRP" THEN {0, 32} ELSE {0})])
        /\ \A i \in 1..Len(dir.entries) :
               /\ Len(dir.entries[i].name) <= 12
               /\ (disk.fmt = "GRP") =>
                      (\A j \in 1..Len(dir.entries[i].name) : dir.entries[i].name[j] # 32)

\* the same letters, whatever their case
Upper(c) == IF c \in 97..122 THEN c - 32 ELSE c

SameFolded(s, t) ==
    /\ Len(s) = Len(t)
    /\ \A i \in 1..Len(s) : Upper(s[i]) = Upper(t[i])

(* C23: in a loaded MVL container two names that are equal under case      *)
(* folding get the same answer from the lookup (both are not found, or     *)
(* both find the same entry); in a loaded GRP container a name that is not *)
(* byte for byte the name of an entry is not found.                        *)
C23_CaseRules ==
    (Loaded /\ last.op \in Lookups) =>
        /\ (disk.fmt = "MVL") =>
               \A n \in AskNames :
                   SameFolded(n, last.name) =>
                       /\ arc_find_entry(disk.fmt, dir, n).entry = last.entry
                       /\ arc_find_entry(disk.fmt, dir, n).err = last.err
        /\ (disk.fmt = "GRP"
               /\ \A i \in 1..Len(dir.entries) : dir.entries[i].name # last.name) =>
               /\ last.entry = 0
               /\ last.err = "ERR_NO_SUCH_FILE"

\* an MVL lookup found an entry whose name differs from the name asked in
\* the case of a letter
C23_Witness ==
    /\ Loaded /\ last.op \in Lookups /\ disk.fmt = "MVL"
    /\ last.entry # 0
    /\ dir.entries[last.entry].name # last.name
    /\ SameFolded(dir.entries[last.entry].name, last.name)

----------------------------------------------------------------------------
(* Claims about where a file reads and how far.                            *)

\* the first byte after the directory table of the loaded container
TableEnd == Small(HeaderSize(disk.fmt) + (ToInt(dir.entryCount) * RecordSize(disk.fmt)))

\* the bytes [startPos, startPos + size) of two entries have none in common
Apart(e, f) ==
    \/ e.size = Zero \/ f.size = Zero
    \/ LeB(AddB(e.startPos, e.size), f.startPos)
    \/ LeB(AddB(f.startPos, f.size), e.startPos)

(* C24: the raw handle of every open file is at startPos + cursor of its   *)
(* entry, with the cursor within the entry, so what a read returns comes   *)
(* from [startPos, startPos + size); and these bytes lie after the header  *)
(* and the directory table and are no bytes of another entry.              *)
C24_EntryIsolation ==
    \A h \in OpenFiles :
        /\ PosOf(h) = AddB(EntryOf(h).startPos, files[h].curPos)
        /\ LeB(files[h].curPos, EntryOf(h).size)
        /\ (EntryOf(h).size # Zero) => LeB(TableEnd, EntryOf(h).startPos)
        /\ \A j \in 1..Len(dir.entries) :
               j # files[h].entry => Apart(EntryOf(h), dir.entries[j])

(* C25: a file that is read again and again, with at least one object a    *)
(* call, objects of one size of at least one byte, no seek in between and  *)
(* a medium that delivers, comes to a state where eof is true.             *)
C25_ReadReachesEof ==
    (OpenFiles # {}) ~> (\E h \in OpenFiles : do_eof(files[h], EntryOf(h)) = 1)

(* C26: after a successful seek eof is false; the cursor of a file comes   *)
(* to the size of its entry only by a read, or by the openRead of an entry *)
(* of size 0, never by a seek; and on a file of an entry of size 0 eof is  *)
(* true from openRead on, every seek fails with ERR_PAST_EOF, and every    *)
(* read that the medium does not fail returns 0 and leaves the cursor      *)
(* where it is.                                                            *)
C26_EofSeekConsistent ==
    [][\A h \in Handles :
          ~IsNull(files'[h]) =>
              LET e      == dir'.entries[files'[h].entry]
                  called == last'.h = h
              IN  /\ (called /\ last'.op = "seek" /\ last'.rc = 1) =>
                         do_eof(files'[h], e) = 0
                  /\ (files'[h].curPos = e.size
                         /\ (IsNull(files[h]) \/ files[h].curPos # e.size)) =>
                         /\ called
                         /\ \/ last'.op = "read"
                            \/ last'.op = "openRead" /\ e.size = Zero
                  /\ (e.size = Zero) =>
                         /\ do_eof(files'[h], e) = 1
                         /\ (called /\ last'.op = "seek") =>
                                (last'.rc = 0 /\ last'.err = "ERR_PAST_EOF")
                         /\ (called /\ last'.op = "read" /\ last'.platform # "fail") =>
                                /\ last'.err = "none"
                                /\ last'.rc = 0
                                /\ last'.val = Zero
                                /\ files'[h].curPos = Zero]_vars

====
